---- MODULE Spec2Model ----
(***************************************************************************)
(* Model of backend/buddy_allocator.py: ImprovisedMemoryManager, a         *)
(* best-fit allocator over a list of MemoryBlock objects with optional     *)
(* power-of-two rounding, coalescing on deallocate and compaction.         *)
(*                                                                         *)
(* Python objects are modelled by a heap: `heap` maps an object identity   *)
(* to the fields of a MemoryBlock, `blocks` is the list self.blocks as a   *)
(* sequence of identities and `process_map` maps a name to the identity of *)
(* the object the dictionary refers to.  Objects that neither the list nor *)
(* the dictionary refers to are garbage and are dropped from the heap.     *)
(* Identities cannot be observed by the program, so every call leaves the  *)
(* objects renamed in list order: the object at position i has identity i, *)
(* and objects only the dictionary refers to follow in their old order.    *)
(* Python list indices are 0-based, the sequences here are 1-based.        *)
(***************************************************************************)
EXTENDS Integers, Sequences, FiniteSets, TLC

\* ------------------------------------------------------------------ bounds
MaxCap == 4
MaxSize == 5
Names == {"A", "B", "C"}
Capacities == {MaxCap - 1, MaxCap}
Sizes == 1..MaxSize

\* bounds of the specification that exercises the rounding of sizes
MaxRound == 130
MaxExp == 56
MaxOff == 3
RoundCap == 256
RoundSizes == (0 - 2)..MaxRound
BigSizes == {n \in [e : 0..MaxExp, d : 0..MaxOff] : n.e >= 31 \/ n.d < 2^n.e}

\* None of Python, as the process_name of a free block
None == "None"
\* an optional integer (start_address, new_total_memory): <<>> is None,
\* <<a>> is the integer a
NoneInt == <<>>
SomeInt(a) == <<a>>

VARIABLES total_memory, blocks, heap, process_map, last,
          memory_manager, handler, response
vars == <<total_memory, blocks, heap, process_map, last,
          memory_manager, handler, response>>

\* --------------------------------------------------- backend/api.py, state
\* memory_manager is the global of api.py: None, or the one manager, whose
\* fields are total_memory, blocks, heap and process_map; handler[r] is the
\* position and the local variables of the coroutine that serves request r;
\* response is the latest response sent
service == <<memory_manager, handler, response>>
Engine == "ImprovisedMemoryManager"
MaxRequests == 2
Requests == 1..MaxRequests

\* an optional status dictionary: <<>> is none, <<s>> is the dictionary s
NoStatus == <<>>
SomeStatus(s) == <<s>>

\* a coroutine that is not running; one that is running has called the
\* manager (op, success, message, start_address, moved are its locals) and
\* has get_status and return before it; `after` is the status the manager
\* had when its own call returned
IdleHandler ==
    [pc |-> "idle", op |-> "none", success |-> FALSE, message |-> "none",
     start_address |-> NoneInt, moved |-> 0, after |-> NoStatus]
NoResponse ==
    [request |-> 0, op |-> "none", status_code |-> 0, success |-> FALSE,
     message |-> "none", start_address |-> NoneInt, moved_processes |-> 0,
     initialized |-> FALSE, status |-> NoStatus]

\* the manager used on its own, without the service
NoService ==
    /\ memory_manager = Engine
    /\ handler = [r \in Requests |-> IdleHandler]
    /\ response = NoResponse

\* ------------------------------------------------------------- MemoryBlock
MemoryBlock(start, size, is_free, process_name) ==
    [start |-> start, size |-> size, is_free |-> is_free, process_name |-> process_name]

BlockEnd(b) == b.start + b.size

\* the object at (1-based) position i of the list bl under heap hp
At(bl, hp, i) == hp[bl[i]]

Range(f) == {f[x] : x \in DOMAIN f}

\* identities some reference holds
Live(bl, pm) == Range(bl) \cup Range(pm)

\* a fresh object identity: the least one not in use
NewId(used) == CHOOSE i \in 1..(Cardinality(used) + 1) :
                  i \notin used /\ \A j \in 1..(i - 1) : j \in used

\* the identity an object gets when the referenced objects are renamed in
\* list order, objects outside the list after them
Rename(bl, pm, id) ==
    IF id \in Range(bl)
    THEN CHOOSE i \in 1..Len(bl) : bl[i] = id /\ \A j \in 1..(i - 1) : bl[j] # id
    ELSE Len(bl) + Cardinality({d \in Range(pm) \ Range(bl) : d <= id})

\* garbage collection: the heap restricted to referenced objects, renamed
Collect(bl, hp, pm) ==
    [k \in {Rename(bl, pm, i) : i \in Live(bl, pm)} |->
        hp[CHOOSE i \in Live(bl, pm) : Rename(bl, pm, i) = k]]

\* a dictionary with key k set to v / with key k deleted
DictSet(d, k, v) == [x \in DOMAIN d \cup {k} |-> IF x = k THEN v ELSE d[x]]
DictDel(d, k) == [x \in DOMAIN d \ {k} |-> d[x]]
EmptyDict == [x \in {} |-> 0]

\* list.insert(i, v) with 1-based i: v ends up at position i
ListInsert(s, i, v) == SubSeq(s, 1, i - 1) \o <<v>> \o SubSeq(s, i, Len(s))

\* ------------------------------------------------------- _initialize_memory
InitBlocks == <<1>>
InitHeap(total) == [i \in {1} |-> MemoryBlock(0, total, TRUE, None)]

\* ------------------------------------------------------ _round_to_power_of_2
RECURSIVE Pow2(_)
Pow2(k) == IF k <= 0 THEN 1 ELSE 2 * Pow2(k - 1)

RECURSIVE FloorLog2(_)
FloorLog2(n) == IF n <= 1 THEN 0 ELSE 1 + FloorLog2(n \div 2)

\* A positive integer is written 2^e + d with 0 <= d < 2^e, as the record
\* [e |-> e, d |-> d]; Python integers are unbounded, and this form reaches
\* the sizes beyond the 32-bit integers of the model checker.
Split(size) == [e |-> FloorLog2(size), d |-> size - Pow2(FloorLog2(size))]

\* bits of the significand of a C double
MantissaBits == 53

\* math.log2 first converts the integer to a double (PyLong_AsDouble): the
\* nearest multiple of the spacing 2^(e-52) of the doubles in [2^e, 2^(e+1)),
\* ties to the even significand.  Written for d below 2^e minus that spacing.
ToDouble(n) ==
    IF n.e < MantissaBits THEN n
    ELSE LET ulp == Pow2(n.e - MantissaBits + 1)
             rem == n.d % ulp
             lo == n.d - rem
         IN IF 2 * rem < ulp THEN [e |-> n.e, d |-> lo]
            ELSE IF 2 * rem > ulp THEN [e |-> n.e, d |-> lo + ulp]
            ELSE IF (lo \div ulp) % 2 = 0 THEN [e |-> n.e, d |-> lo]
            ELSE [e |-> n.e, d |-> lo + ulp]

\* math.log2(x) of the double x = 2^e + d is e + log2(1 + d/2^e), rounded to
\* the nearest double.  The result is the double e itself when d = 0, and
\* when the excess, d / (2^e ln 2) for the small d/2^e concerned, is below
\* half the spacing 2^(FloorLog2(e) - 52) of the doubles at e:
\*     d < ln 2 * 2^(e + FloorLog2(e) - 53),   ln 2 = 0.6931...
Log2IsExponent(x) ==
    \/ x.d = 0
    \/ LET k == x.e + FloorLog2(x.e) - MantissaBits
       IN k >= 0 /\ x.d * 10000 < 6931 * Pow2(k)

\* math.ceil(math.log2(size)) for the integer size = 2^e + d
CeilLog2(n) == LET x == ToDouble(n) IN IF Log2IsExponent(x) THEN x.e ELSE x.e + 1

RoundToPowerOf2(size) == IF size <= 0 THEN 1 ELSE Pow2(CeilLog2(Split(size)))

\* the same for a size written as [e, d]: 2 ** math.ceil(math.log2(size))
RoundToPowerOf2Big(n) == [e |-> CeilLog2(n), d |-> 0]

\* ------------------------------------------------------------ _find_best_fit
\* the scan of the for loop from position idx on; best_idx = 0 is None
\* (best_size is then float('inf'), below which every size lies)
RECURSIVE BestFitScan(_, _, _, _, _, _)
BestFitScan(bl, hp, size, idx, best_idx, best_size) ==
    IF idx > Len(bl) THEN best_idx
    ELSE LET block == At(bl, hp, idx) IN
         IF block.is_free /\ block.size >= size
            /\ (best_idx = 0 \/ block.size < best_size)
         THEN BestFitScan(bl, hp, size, idx + 1, idx, block.size)
         ELSE BestFitScan(bl, hp, size, idx + 1, best_idx, best_size)

\* mutant: `<=` for `<`, the last of several equally small blocks wins
RECURSIVE BestFitScan_LastTie(_, _, _, _, _, _)
BestFitScan_LastTie(bl, hp, size, idx, best_idx, best_size) ==
    IF idx > Len(bl) THEN best_idx
    ELSE LET block == At(bl, hp, idx) IN
         IF block.is_free /\ block.size >= size
            /\ (best_idx = 0 \/ block.size <= best_size)
         THEN BestFitScan_LastTie(bl, hp, size, idx + 1, idx, block.size)
         ELSE BestFitScan_LastTie(bl, hp, size, idx + 1, best_idx, best_size)
FindBestFit_LastTie(bl, hp, size) == BestFitScan_LastTie(bl, hp, size, 1, 0, 0)

\* mutant: `>` for `>=`, a block of exactly the size is not accepted
RECURSIVE BestFitScan_StrictlyLarger(_, _, _, _, _, _)
BestFitScan_StrictlyLarger(bl, hp, size, idx, best_idx, best_size) ==
    IF idx > Len(bl) THEN best_idx
    ELSE LET block == At(bl, hp, idx) IN
         IF block.is_free /\ block.size > size
            /\ (best_idx = 0 \/ block.size < best_size)
         THEN BestFitScan_StrictlyLarger(bl, hp, size, idx + 1, idx, block.size)
         ELSE BestFitScan_StrictlyLarger(bl, hp, size, idx + 1, best_idx, best_size)
FindBestFit_StrictlyLarger(bl, hp, size) == BestFitScan_StrictlyLarger(bl, hp, size, 1, 0, 0)

\* mutant: the scan forgets to test is_free
RECURSIVE BestFitScan_IgnoreFree(_, _, _, _, _, _)
BestFitScan_IgnoreFree(bl, hp, size, idx, best_idx, best_size) ==
    IF idx > Len(bl) THEN best_idx
    ELSE LET block == At(bl, hp, idx) IN
         IF block.size >= size /\ (best_idx = 0 \/ block.size < best_size)
         THEN BestFitScan_IgnoreFree(bl, hp, size, idx + 1, idx, block.size)
         ELSE BestFitScan_IgnoreFree(bl, hp, size, idx + 1, best_idx, best_size)
FindBestFit_IgnoreFree(bl, hp, size) == BestFitScan_IgnoreFree(bl, hp, size, 1, 0, 0)

FindBestFit(bl, hp, size) == BestFitScan(bl, hp, size, 1, 0, 0)

\* ------------------------------------------------------------------ allocate
\* what a call returns together with the state it leaves
Outcome(bl, hp, pm, success, message, actual_size, start_address, moved_count) ==
    [blocks |-> bl, heap |-> hp, process_map |-> pm, success |-> success,
     message |-> message, actual_size |-> actual_size,
     start_address |-> start_address, moved_count |-> moved_count]

ActualSize(size, use_buddy) == IF use_buddy THEN RoundToPowerOf2(size) ELSE size

\* mutant: the chosen block is never split, the process gets all of it
PlaceInBlock_NoSplit(bl, hp, pm, best_idx, process_name, actual_size) ==
    [blocks |-> bl,
     heap |-> [hp EXCEPT ![bl[best_idx]] =
                  [@ EXCEPT !.is_free = FALSE, !.process_name = process_name]]]

\* mutant: the remaining free block is created at the start of the original
\* block instead of after the allocated part
PlaceInBlock_RemainderAtStart(bl, hp, pm, best_idx, process_name, actual_size) ==
    LET block == At(bl, hp, best_idx) IN
    IF block.size > actual_size
    THEN LET a == NewId(Live(bl, pm))
             r == NewId(Live(bl, pm) \cup {a})
             allocated_block == MemoryBlock(block.start, actual_size, FALSE, process_name)
             remaining_block == MemoryBlock(block.start, block.size - actual_size, TRUE, None)
             hp2 == [i \in DOMAIN hp \cup {a, r} |->
                        IF i = a THEN allocated_block
                        ELSE IF i = r THEN remaining_block ELSE hp[i]]
         IN [blocks |-> ListInsert([bl EXCEPT ![best_idx] = a], best_idx + 1, r),
             heap |-> hp2]
    ELSE [blocks |-> bl,
          heap |-> [hp EXCEPT ![bl[best_idx]] =
                       [@ EXCEPT !.is_free = FALSE, !.process_name = process_name]]]

\* mutant: the remaining free block is appended at the end of the list
PlaceInBlock_RemainderAppended(bl, hp, pm, best_idx, process_name, actual_size) ==
    LET block == At(bl, hp, best_idx) IN
    IF block.size > actual_size
    THEN LET a == NewId(Live(bl, pm))
             r == NewId(Live(bl, pm) \cup {a})
             allocated_block == MemoryBlock(block.start, actual_size, FALSE, process_name)
             remaining_block == MemoryBlock(block.start + actual_size,
                                            block.size - actual_size, TRUE, None)
             hp2 == [i \in DOMAIN hp \cup {a, r} |->
                        IF i = a THEN allocated_block
                        ELSE IF i = r THEN remaining_block ELSE hp[i]]
         IN [blocks |-> Append([bl EXCEPT ![best_idx] = a], r),
             heap |-> hp2]
    ELSE [blocks |-> bl,
          heap |-> [hp EXCEPT ![bl[best_idx]] =
                       [@ EXCEPT !.is_free = FALSE, !.process_name = process_name]]]

\* lines 128-141: split the chosen block or use it entirely; the result is
\* the new list and heap
PlaceInBlock(bl, hp, pm, best_idx, process_name, actual_size) ==
    LET block == At(bl, hp, best_idx) IN
    IF block.size > actual_size
    THEN LET a == NewId(Live(bl, pm))
             r == NewId(Live(bl, pm) \cup {a})
             allocated_block == MemoryBlock(block.start, actual_size, FALSE, process_name)
             remaining_block == MemoryBlock(block.start + actual_size,
                                            block.size - actual_size, TRUE, None)
             hp2 == [i \in DOMAIN hp \cup {a, r} |->
                        IF i = a THEN allocated_block
                        ELSE IF i = r THEN remaining_block ELSE hp[i]]
         IN [blocks |-> ListInsert([bl EXCEPT ![best_idx] = a], best_idx + 1, r),
             heap |-> hp2]
    ELSE [blocks |-> bl,
          heap |-> [hp EXCEPT ![bl[best_idx]] =
                       [@ EXCEPT !.is_free = FALSE, !.process_name = process_name]]]

\* mutant: the search for a block comes before the test for a duplicate name
AllocateCall_FitFirst(bl, hp, pm, process_name, size, use_buddy) ==
    LET actual_size == ActualSize(size, use_buddy)
        best_idx == FindBestFit(bl, hp, actual_size)
    IN IF best_idx = 0
       THEN Outcome(bl, hp, pm, FALSE, "No suitable free block found", 0, NoneInt, 0)
       ELSE IF process_name \in DOMAIN pm
       THEN Outcome(bl, hp, pm, FALSE, "already allocated", 0, NoneInt, 0)
       ELSE LET start_address == At(bl, hp, best_idx).start
                placed == PlaceInBlock(bl, hp, pm, best_idx, process_name, actual_size)
            IN Outcome(placed.blocks, placed.heap,
                       DictSet(pm, process_name, placed.blocks[best_idx]),
                       TRUE, "allocated", actual_size, SomeInt(start_address), 0)

AllocateCall(bl, hp, pm, process_name, size, use_buddy) ==
    IF process_name \in DOMAIN pm
    THEN Outcome(bl, hp, pm, FALSE, "already allocated", 0, NoneInt, 0)
    ELSE LET actual_size == ActualSize(size, use_buddy)
             best_idx == FindBestFit(bl, hp, actual_size)
         IN IF best_idx = 0
            THEN Outcome(bl, hp, pm, FALSE, "No suitable free block found", 0, NoneInt, 0)
            ELSE LET start_address == At(bl, hp, best_idx).start
                     placed == PlaceInBlock(bl, hp, pm, best_idx, process_name, actual_size)
                 IN Outcome(placed.blocks, placed.heap,
                            DictSet(pm, process_name, placed.blocks[best_idx]),
                            TRUE, "allocated", actual_size, SomeInt(start_address), 0)

\* ---------------------------------------------------------- _merge_free_blocks
\* mutant: `if` for `while`, at most one following free block is merged
MergeRun_Once(bl, hp, current, j) ==
    IF j <= Len(bl) /\ At(bl, hp, j).is_free
    THEN [heap |-> [hp EXCEPT ![current].size = @ + hp[bl[j]].size], j |-> j + 1]
    ELSE [heap |-> hp, j |-> j]

\* mutant: the following free blocks are skipped without adding their sizes
MergeRun_NoAdd(bl, hp, current, j) ==
    [heap |-> hp,
     j |-> CHOOSE k \in j..(Len(bl) + 1) :
              /\ k = Len(bl) + 1 \/ ~At(bl, hp, k).is_free
              /\ \A m \in j..(k - 1) : At(bl, hp, m).is_free]

\* mutant: the merged block takes the start of the block merged into it
RECURSIVE MergeRun_MoveStart(_, _, _, _)
MergeRun_MoveStart(bl, hp, current, j) ==
    IF j <= Len(bl) /\ At(bl, hp, j).is_free
    THEN MergeRun_MoveStart(bl,
             [hp EXCEPT ![current] = [@ EXCEPT !.size = @ + hp[bl[j]].size,
                                               !.start = hp[bl[j]].start]],
             current, j + 1)
    ELSE [heap |-> hp, j |-> j]

\* mutant: the following free blocks are never merged into the current one
MergeRun_Stop(bl, hp, current, j) == [heap |-> hp, j |-> j]

\* the inner while loop: current.size += self.blocks[j].size while blocks[j]
\* is free; gives the heap and the j it stops at
RECURSIVE MergeRun(_, _, _, _)
MergeRun(bl, hp, current, j) ==
    IF j <= Len(bl) /\ At(bl, hp, j).is_free
    THEN MergeRun(bl, [hp EXCEPT ![current].size = @ + hp[bl[j]].size], current, j + 1)
    ELSE [heap |-> hp, j |-> j]

\* the outer while loop from position i on, with the list `merged` so far
RECURSIVE MergeLoop(_, _, _, _)
MergeLoop(bl, hp, i, merged) ==
    IF i > Len(bl) THEN [blocks |-> merged, heap |-> hp]
    ELSE LET current == bl[i] IN
         IF hp[current].is_free
         THEN LET run == MergeRun(bl, hp, current, i + 1)
              IN MergeLoop(bl, run.heap, run.j, Append(merged, current))
         ELSE MergeLoop(bl, hp, i + 1, Append(merged, current))

\* mutant: the merging pass does nothing
MergeFreeBlocks_Skip(bl, hp) == [blocks |-> bl, heap |-> hp]

MergeFreeBlocks(bl, hp) ==
    IF Len(bl) <= 1 THEN [blocks |-> bl, heap |-> hp]
    ELSE MergeLoop(bl, hp, 1, <<>>)

\* ---------------------------------------------------------------- deallocate
\* mutant: the freed block keeps its process_name
RECURSIVE FreeOwned_KeepName(_, _, _, _)
FreeOwned_KeepName(bl, hp, process_name, idx) ==
    IF idx > Len(bl) THEN hp
    ELSE LET block == At(bl, hp, idx) IN
         IF ~block.is_free /\ block.process_name = process_name
         THEN [hp EXCEPT ![bl[idx]] = [@ EXCEPT !.is_free = TRUE]]
         ELSE FreeOwned_KeepName(bl, hp, process_name, idx + 1)

\* mutant: the first allocated block is freed, whoever owns it
RECURSIVE FreeOwned_AnyOwner(_, _, _, _)
FreeOwned_AnyOwner(bl, hp, process_name, idx) ==
    IF idx > Len(bl) THEN hp
    ELSE LET block == At(bl, hp, idx) IN
         IF ~block.is_free
         THEN [hp EXCEPT ![bl[idx]] = [@ EXCEPT !.is_free = TRUE, !.process_name = None]]
         ELSE FreeOwned_AnyOwner(bl, hp, process_name, idx + 1)

\* lines 162-166: free the first block owned by the name, if there is one
RECURSIVE FreeOwned(_, _, _, _)
FreeOwned(bl, hp, process_name, idx) ==
    IF idx > Len(bl) THEN hp
    ELSE LET block == At(bl, hp, idx) IN
         IF ~block.is_free /\ block.process_name = process_name
         THEN [hp EXCEPT ![bl[idx]] = [@ EXCEPT !.is_free = TRUE, !.process_name = None]]
         ELSE FreeOwned(bl, hp, process_name, idx + 1)

\* mutant: no test that the name is registered
DeallocateCall_NoCheck(bl, hp, pm, process_name) ==
    LET hp1 == FreeOwned(bl, hp, process_name, 1)
        m == MergeFreeBlocks(bl, hp1)
    IN Outcome(m.blocks, m.heap, DictDel(pm, process_name),
               TRUE, "deallocated", 0, NoneInt, 0)

\* mutant: the entry of the name stays in process_map
DeallocateCall_KeepEntry(bl, hp, pm, process_name) ==
    IF process_name \notin DOMAIN pm
    THEN Outcome(bl, hp, pm, FALSE, "not found", 0, NoneInt, 0)
    ELSE LET hp1 == FreeOwned(bl, hp, process_name, 1)
             m == MergeFreeBlocks(bl, hp1)
         IN Outcome(m.blocks, m.heap, pm, TRUE, "deallocated", 0, NoneInt, 0)

DeallocateCall(bl, hp, pm, process_name) ==
    IF process_name \notin DOMAIN pm
    THEN Outcome(bl, hp, pm, FALSE, "not found", 0, NoneInt, 0)
    ELSE LET hp1 == FreeOwned(bl, hp, process_name, 1)
             m == MergeFreeBlocks(bl, hp1)
         IN Outcome(m.blocks, m.heap, DictDel(pm, process_name),
                    TRUE, "deallocated", 0, NoneInt, 0)

\* ------------------------------------------------------------------- compact
\* mutant: the relocation forgets to update process_map
RECURSIVE CompactLoop_StaleMap(_, _, _, _, _, _, _)
CompactLoop_StaleMap(old, allocated_blocks, k, hp, pm, new_blocks, current_address) ==
    IF k > Len(allocated_blocks)
    THEN [blocks |-> new_blocks, heap |-> hp, process_map |-> pm,
          current_address |-> current_address]
    ELSE LET block == hp[allocated_blocks[k]]
             n == NewId(Live(old, pm) \cup Range(new_blocks))
             new_block == MemoryBlock(current_address, block.size, FALSE, block.process_name)
         IN CompactLoop_StaleMap(old, allocated_blocks, k + 1,
                        [i \in DOMAIN hp \cup {n} |-> IF i = n THEN new_block ELSE hp[i]],
                        pm, Append(new_blocks, n), current_address + block.size)

\* mutant: a relocated block keeps its old start address
RECURSIVE CompactLoop_KeepAddress(_, _, _, _, _, _, _)
CompactLoop_KeepAddress(old, allocated_blocks, k, hp, pm, new_blocks, current_address) ==
    IF k > Len(allocated_blocks)
    THEN [blocks |-> new_blocks, heap |-> hp, process_map |-> pm,
          current_address |-> current_address]
    ELSE LET block == hp[allocated_blocks[k]]
             n == NewId(Live(old, pm) \cup Range(new_blocks))
             new_block == MemoryBlock(block.start, block.size, FALSE, block.process_name)
         IN CompactLoop_KeepAddress(old, allocated_blocks, k + 1,
                        [i \in DOMAIN hp \cup {n} |-> IF i = n THEN new_block ELSE hp[i]],
                        DictSet(pm, block.process_name, n),
                        Append(new_blocks, n),
                        current_address + block.size)

\* mutant: one unit of memory is left unused behind every relocated block
RECURSIVE CompactLoop_Gap(_, _, _, _, _, _, _)
CompactLoop_Gap(old, allocated_blocks, k, hp, pm, new_blocks, current_address) ==
    IF k > Len(allocated_blocks)
    THEN [blocks |-> new_blocks, heap |-> hp, process_map |-> pm,
          current_address |-> current_address]
    ELSE LET block == hp[allocated_blocks[k]]
             n == NewId(Live(old, pm) \cup Range(new_blocks))
             new_block == MemoryBlock(current_address, block.size, FALSE, block.process_name)
         IN CompactLoop_Gap(old, allocated_blocks, k + 1,
                        [i \in DOMAIN hp \cup {n} |-> IF i = n THEN new_block ELSE hp[i]],
                        DictSet(pm, block.process_name, n),
                        Append(new_blocks, n),
                        current_address + block.size + 1)

\* the for loop over allocated_blocks from position k on
RECURSIVE CompactLoop(_, _, _, _, _, _, _)
CompactLoop(old, allocated_blocks, k, hp, pm, new_blocks, current_address) ==
    IF k > Len(allocated_blocks)
    THEN [blocks |-> new_blocks, heap |-> hp, process_map |-> pm,
          current_address |-> current_address]
    ELSE LET block == hp[allocated_blocks[k]]
             n == NewId(Live(old, pm) \cup Range(new_blocks))
             new_block == MemoryBlock(current_address, block.size, FALSE, block.process_name)
         IN CompactLoop(old, allocated_blocks, k + 1,
                        [i \in DOMAIN hp \cup {n} |-> IF i = n THEN new_block ELSE hp[i]],
                        DictSet(pm, block.process_name, n),
                        Append(new_blocks, n),
                        current_address + block.size)

\* a list in the opposite order
Reverse(seq) == [i \in 1..Len(seq) |-> seq[Len(seq) + 1 - i]]

\* mutant: the allocated blocks are relocated in the opposite order
CompactCall_Reverse(total, bl, hp, pm) ==
    LET allocated_blocks == Reverse(SelectSeq(bl, LAMBDA i : ~hp[i].is_free)) IN
    IF allocated_blocks = <<>>
    THEN Outcome(bl, hp, pm, FALSE, "No allocated blocks to compact", 0, NoneInt, 0)
    ELSE LET c == CompactLoop(bl, allocated_blocks, 1, hp, pm, <<>>, 0)
             free_space == total - c.current_address
             f == NewId(Live(bl, c.process_map) \cup Range(c.blocks))
         IN IF free_space > 0
            THEN Outcome(Append(c.blocks, f),
                         [i \in DOMAIN c.heap \cup {f} |->
                             IF i = f THEN MemoryBlock(c.current_address, free_space, TRUE, None)
                             ELSE c.heap[i]],
                         c.process_map, TRUE, "Memory compacted successfully", 0, NoneInt,
                         Len(allocated_blocks))
            ELSE Outcome(c.blocks, c.heap, c.process_map, TRUE,
                         "Memory compacted successfully", 0, NoneInt, Len(allocated_blocks))

\* mutant: the free space comes first and the allocated blocks behind it
CompactCall_FreeFirst(total, bl, hp, pm) ==
    LET allocated_blocks == SelectSeq(bl, LAMBDA i : ~hp[i].is_free) IN
    IF allocated_blocks = <<>>
    THEN Outcome(bl, hp, pm, FALSE, "No allocated blocks to compact", 0, NoneInt, 0)
    ELSE LET used == CompactLoop(bl, allocated_blocks, 1, hp, pm, <<>>, 0).current_address
             free_space == total - used
             c == CompactLoop(bl, allocated_blocks, 1, hp, pm, <<>>, free_space)
             f == NewId(Live(bl, c.process_map) \cup Range(c.blocks))
         IN IF free_space > 0
            THEN Outcome(<<f>> \o c.blocks,
                         [i \in DOMAIN c.heap \cup {f} |->
                             IF i = f THEN MemoryBlock(0, free_space, TRUE, None)
                             ELSE c.heap[i]],
                         c.process_map, TRUE, "Memory compacted successfully", 0, NoneInt,
                         Len(allocated_blocks))
            ELSE Outcome(c.blocks, c.heap, c.process_map, TRUE,
                         "Memory compacted successfully", 0, NoneInt, Len(allocated_blocks))

\* mutant: the trailing free block is appended also when nothing remains
CompactCall_AlwaysFree(total, bl, hp, pm) ==
    LET allocated_blocks == SelectSeq(bl, LAMBDA i : ~hp[i].is_free) IN
    IF allocated_blocks = <<>>
    THEN Outcome(bl, hp, pm, FALSE, "No allocated blocks to compact", 0, NoneInt, 0)
    ELSE LET c == CompactLoop(bl, allocated_blocks, 1, hp, pm, <<>>, 0)
             free_space == total - c.current_address
             f == NewId(Live(bl, c.process_map) \cup Range(c.blocks))
         IN Outcome(Append(c.blocks, f),
                    [i \in DOMAIN c.heap \cup {f} |->
                        IF i = f THEN MemoryBlock(c.current_address, free_space, TRUE, None)
                        ELSE c.heap[i]],
                    c.process_map, TRUE, "Memory compacted successfully", 0, NoneInt,
                    Len(allocated_blocks))

\* mutant: the remaining space is never given back as a free block
CompactCall_NoFree(total, bl, hp, pm) ==
    LET allocated_blocks == SelectSeq(bl, LAMBDA i : ~hp[i].is_free) IN
    IF allocated_blocks = <<>>
    THEN Outcome(bl, hp, pm, FALSE, "No allocated blocks to compact", 0, NoneInt, 0)
    ELSE LET c == CompactLoop(bl, allocated_blocks, 1, hp, pm, <<>>, 0)
         IN Outcome(c.blocks, c.heap, c.process_map, TRUE,
                    "Memory compacted successfully", 0, NoneInt, Len(allocated_blocks))

\* mutant: no early return when nothing is allocated
CompactCall_NoGuard(total, bl, hp, pm) ==
    LET allocated_blocks == SelectSeq(bl, LAMBDA i : ~hp[i].is_free)
        c == CompactLoop(bl, allocated_blocks, 1, hp, pm, <<>>, 0)
        free_space == total - c.current_address
        f == NewId(Live(bl, c.process_map) \cup Range(c.blocks))
    IN IF free_space > 0
       THEN Outcome(Append(c.blocks, f),
                    [i \in DOMAIN c.heap \cup {f} |->
                        IF i = f THEN MemoryBlock(c.current_address, free_space, TRUE, None)
                        ELSE c.heap[i]],
                    c.process_map, TRUE, "Memory compacted successfully", 0, NoneInt,
                    Len(allocated_blocks))
       ELSE Outcome(c.blocks, c.heap, c.process_map, TRUE,
                    "Memory compacted successfully", 0, NoneInt, Len(allocated_blocks))

\* mutant: the count is the number of blocks whose start address changed
CompactCall_CountMoved(total, bl, hp, pm) ==
    LET allocated_blocks == SelectSeq(bl, LAMBDA i : ~hp[i].is_free) IN
    IF allocated_blocks = <<>>
    THEN Outcome(bl, hp, pm, FALSE, "No allocated blocks to compact", 0, NoneInt, 0)
    ELSE LET c == CompactLoop(bl, allocated_blocks, 1, hp, pm, <<>>, 0)
             free_space == total - c.current_address
             f == NewId(Live(bl, c.process_map) \cup Range(c.blocks))
             moved == Cardinality({k \in 1..Len(allocated_blocks) :
                         hp[allocated_blocks[k]].start # c.heap[c.blocks[k]].start})
         IN IF free_space > 0
            THEN Outcome(Append(c.blocks, f),
                         [i \in DOMAIN c.heap \cup {f} |->
                             IF i = f THEN MemoryBlock(c.current_address, free_space, TRUE, None)
                             ELSE c.heap[i]],
                         c.process_map, TRUE, "Memory compacted successfully", 0, NoneInt,
                         moved)
            ELSE Outcome(c.blocks, c.heap, c.process_map, TRUE,
                         "Memory compacted successfully", 0, NoneInt, moved)

\* mutant: the new list is built but self.blocks is not replaced by it
CompactCall_KeepList(total, bl, hp, pm) ==
    LET allocated_blocks == SelectSeq(bl, LAMBDA i : ~hp[i].is_free) IN
    IF allocated_blocks = <<>>
    THEN Outcome(bl, hp, pm, FALSE, "No allocated blocks to compact", 0, NoneInt, 0)
    ELSE Outcome(bl, hp, pm, TRUE, "Memory compacted successfully", 0, NoneInt,
                 Len(allocated_blocks))

\* lines 201-239
CompactCall(total, bl, hp, pm) ==
    LET allocated_blocks == SelectSeq(bl, LAMBDA i : ~hp[i].is_free) IN
    IF allocated_blocks = <<>>
    THEN Outcome(bl, hp, pm, FALSE, "No allocated blocks to compact", 0, NoneInt, 0)
    ELSE LET c == CompactLoop(bl, allocated_blocks, 1, hp, pm, <<>>, 0)
             free_space == total - c.current_address
             f == NewId(Live(bl, c.process_map) \cup Range(c.blocks))
         IN IF free_space > 0
            THEN Outcome(Append(c.blocks, f),
                         [i \in DOMAIN c.heap \cup {f} |->
                             IF i = f THEN MemoryBlock(c.current_address, free_space, TRUE, None)
                             ELSE c.heap[i]],
                         c.process_map, TRUE, "Memory compacted successfully", 0, NoneInt,
                         Len(allocated_blocks))
            ELSE Outcome(c.blocks, c.heap, c.process_map, TRUE,
                         "Memory compacted successfully", 0, NoneInt, Len(allocated_blocks))

\* --------------------------------------------------------------------- reset
\* `if new_total_memory:` is false for None and for 0
\* mutant: the new capacity is ignored
ResetTotal_Keep(total, new_total_memory) == total

ResetTotal(total, new_total_memory) ==
    IF new_total_memory # NoneInt /\ new_total_memory[1] # 0
    THEN new_total_memory[1] ELSE total

\* ------------------------------------------------------------------- queries
RECURSIVE SumSizes(_, _, _, _)
SumSizes(bl, hp, free, idx) ==
    IF idx > Len(bl) THEN 0
    ELSE (IF At(bl, hp, idx).is_free = free THEN At(bl, hp, idx).size ELSE 0)
         + SumSizes(bl, hp, free, idx + 1)

GetUsedMemory(bl, hp) == SumSizes(bl, hp, FALSE, 1)
GetFreeMemory(bl, hp) == SumSizes(bl, hp, TRUE, 1)

\* -------------------------------------------------------------------- state
\* the state of the engine
\* mutant: the divisor is the number of free blocks
GetFragmentationRatio_ByFree(bl, hp) ==
    LET free_blocks == SelectSeq(bl, LAMBDA i : hp[i].is_free) IN
    IF Len(free_blocks) <= 1 THEN [num |-> 0, den |-> 1]
    ELSE [num |-> Len(free_blocks) - 1, den |-> Len(free_blocks)]

\* lines 249-259: the ratio as the fraction num / den (0.0 is 0 / 1)
GetFragmentationRatio(bl, hp) ==
    LET free_blocks == SelectSeq(bl, LAMBDA i : hp[i].is_free) IN
    IF Len(free_blocks) <= 1 THEN [num |-> 0, den |-> 1]
    ELSE [num |-> Len(free_blocks) - 1, den |-> Len(bl)]

\* MemoryBlock.to_dict
ToDict(block) ==
    [start |-> block.start, size |-> block.size, is_free |-> block.is_free,
     process_name |-> block.process_name, end |-> BlockEnd(block)]

\* round(n / d) to an integer, ties to the even one
RoundHalfEven(n, d) ==
    LET q == n \div d
        r == n % d
    IN IF 2 * r < d THEN q
       ELSE IF 2 * r > d THEN q + 1
       ELSE IF q % 2 = 0 THEN q ELSE q + 1

\* round(ratio * 100, 2), counted in hundredths of a percent
Fragmentation(bl, hp) ==
    LET ratio == GetFragmentationRatio(bl, hp)
    IN RoundHalfEven(ratio.num * 10000, ratio.den)

\* mutant: used_memory is the size of all blocks
GetStatus_UsedIsAll(total, bl, hp, pm) ==
    [total_memory |-> total,
     used_memory |-> GetUsedMemory(bl, hp) + GetFreeMemory(bl, hp),
     free_memory |-> GetFreeMemory(bl, hp),
     blocks |-> [i \in 1..Len(bl) |-> ToDict(hp[bl[i]])],
     active_processes |-> Cardinality(DOMAIN pm),
     fragmentation |-> Fragmentation(bl, hp)]

\* lines 261-275: the dictionary get_status returns
GetStatus(total, bl, hp, pm) ==
    [total_memory |-> total,
     used_memory |-> GetUsedMemory(bl, hp),
     free_memory |-> GetFreeMemory(bl, hp),
     blocks |-> [i \in 1..Len(bl) |-> ToDict(hp[bl[i]])],
     active_processes |-> Cardinality(DOMAIN pm),
     fragmentation |-> Fragmentation(bl, hp)]

engine == <<total_memory, blocks, heap, process_map>>

\* `last` records the latest call: its arguments and what it returned;
\* big_size and big_result are the argument and the result of a call of
\* _round_to_power_of_2 with a size written [e, d]
Call(op, process_name, size, use_buddy, new_total_memory, o) ==
    [op |-> op, process_name |-> process_name, size |-> size, use_buddy |-> use_buddy,
     new_total_memory |-> new_total_memory, success |-> o.success, message |-> o.message,
     actual_size |-> o.actual_size, start_address |-> o.start_address,
     moved_count |-> o.moved_count, big_size |-> Split(1), big_result |-> Split(1)]

Init ==
    /\ total_memory \in Capacities
    /\ blocks = InitBlocks
    /\ heap = InitHeap(total_memory)
    /\ process_map = EmptyDict
    /\ last = Call("init", None, 0, FALSE, SomeInt(total_memory),
                   Outcome(blocks, heap, process_map, TRUE, "initialized", 0, NoneInt, 0))
    /\ NoService

Leave(o) ==
    /\ blocks' = [i \in 1..Len(o.blocks) |-> Rename(o.blocks, o.process_map, o.blocks[i])]
    /\ process_map' = [p \in DOMAIN o.process_map |->
                          Rename(o.blocks, o.process_map, o.process_map[p])]
    /\ heap' = Collect(o.blocks, o.heap, o.process_map)

Allocate(process_name, size, use_buddy) ==
    LET o == AllocateCall(blocks, heap, process_map, process_name, size, use_buddy) IN
    /\ Leave(o)
    /\ last' = Call("allocate", process_name, size, use_buddy, NoneInt, o)
    /\ UNCHANGED <<total_memory, service>>

Deallocate(process_name) ==
    LET o == DeallocateCall(blocks, heap, process_map, process_name) IN
    /\ Leave(o)
    /\ last' = Call("deallocate", process_name, 0, FALSE, NoneInt, o)
    /\ UNCHANGED <<total_memory, service>>

Compact ==
    LET o == CompactCall(total_memory, blocks, heap, process_map) IN
    /\ Leave(o)
    /\ last' = Call("compact", None, 0, FALSE, NoneInt, o)
    /\ UNCHANGED <<total_memory, service>>

Reset(new_total_memory) ==
    LET total == ResetTotal(total_memory, new_total_memory)
        o == Outcome(InitBlocks, InitHeap(total), EmptyDict, TRUE, "reset", 0, NoneInt, 0)
    IN /\ total_memory' = total
       /\ Leave(o)
       /\ last' = Call("reset", None, 0, FALSE, new_total_memory, o)
       /\ UNCHANGED service

ResetArgs == {NoneInt} \cup {SomeInt(c) : c \in Capacities}

Next ==
    \/ \E p \in Names, s \in Sizes, u \in BOOLEAN : Allocate(p, s, u)
    \/ \E p \in Names : Deallocate(p)
    \/ Compact
    \/ \E c \in ResetArgs : Reset(c)

Spec == Init /\ [][Next]_vars

\* ------------------------------------------- the rounding of sizes, exercised
\* a call of _round_to_power_of_2 on its own, for a size written [e, d];
\* the result does not depend on the state, a fresh manager is enough
RoundBig(n) ==
    /\ process_map = EmptyDict
    /\ last' = [Call("_round_to_power_of_2", None, 0, TRUE, NoneInt,
                     Outcome(blocks, heap, process_map, TRUE, "rounded", 0, NoneInt, 0))
                    EXCEPT !.big_size = n, !.big_result = RoundToPowerOf2Big(n)]
    /\ UNCHANGED <<engine, service>>

InitRounding ==
    /\ total_memory = RoundCap
    /\ blocks = InitBlocks
    /\ heap = InitHeap(total_memory)
    /\ process_map = EmptyDict
    /\ last = Call("init", None, 0, FALSE, SomeInt(total_memory),
                   Outcome(blocks, heap, process_map, TRUE, "initialized", 0, NoneInt, 0))
    /\ NoService

\* one process allocated with any size and flag on a fresh manager, and the
\* rounding of the sizes no manager of the model can hold
NextRounding ==
    \/ \E s \in RoundSizes, u \in BOOLEAN : process_map = EmptyDict /\ Allocate("A", s, u)
    \/ Reset(NoneInt)
    \/ \E n \in BigSizes : RoundBig(n)

SpecRounding == InitRounding /\ [][NextRounding]_vars

\* ------------------------------------------- a manager of the default capacity
\* the default of the total_memory parameter of __init__
DefaultTotalMemory == 1024
\* sizes that fit the default capacity several times, and one that does not
\* fit once a quarter of it is taken
ScenarioSizes == {DefaultTotalMemory \div 4, 800}

InitScenario ==
    /\ total_memory = DefaultTotalMemory
    /\ blocks = InitBlocks
    /\ heap = InitHeap(total_memory)
    /\ process_map = EmptyDict
    /\ last = Call("init", None, 0, FALSE, SomeInt(total_memory),
                   Outcome(blocks, heap, process_map, TRUE, "initialized", 0, NoneInt, 0))
    /\ NoService

NextScenario ==
    \/ \E p \in Names, s \in ScenarioSizes, u \in BOOLEAN : Allocate(p, s, u)
    \/ \E p \in Names : Deallocate(p)
    \/ Compact
    \/ Reset(NoneInt)

SpecScenario == InitScenario /\ [][NextScenario]_vars

\* --------------------------------------------- capacities of either sign
\* __init__ and reset take any integer: the capacities -1 .. MaxAnyCap
MaxAnyCap == 2
AnyCapacities == (0 - 1)..MaxAnyCap

InitAnyCapacity ==
    /\ total_memory \in AnyCapacities
    /\ blocks = InitBlocks
    /\ heap = InitHeap(total_memory)
    /\ process_map = EmptyDict
    /\ last = Call("init", None, 0, FALSE, SomeInt(total_memory),
                   Outcome(blocks, heap, process_map, TRUE, "initialized", 0, NoneInt, 0))
    /\ NoService

NextAnyCapacity ==
    \/ \E p \in Names, s \in 1..MaxAnyCap, u \in BOOLEAN : Allocate(p, s, u)
    \/ \E p \in Names : Deallocate(p)
    \/ Compact
    \/ \E c \in {NoneInt} \cup {SomeInt(c) : c \in AnyCapacities} : Reset(c)

SpecAnyCapacity == InitAnyCapacity /\ [][NextAnyCapacity]_vars

\* ------------------------------------------------------- sizes from 0 on
\* allocate takes any integer as size: the sizes 0 .. MaxAnySize, on a
\* manager of a positive capacity
MaxAnySize == 2
AnySizes == 0..MaxAnySize

InitAnySize ==
    /\ total_memory = MaxCap - 1
    /\ blocks = InitBlocks
    /\ heap = InitHeap(total_memory)
    /\ process_map = EmptyDict
    /\ last = Call("init", None, 0, FALSE, SomeInt(total_memory),
                   Outcome(blocks, heap, process_map, TRUE, "initialized", 0, NoneInt, 0))
    /\ NoService

NextAnySize ==
    \/ \E p \in Names, s \in AnySizes, u \in BOOLEAN : Allocate(p, s, u)
    \/ \E p \in Names : Deallocate(p)
    \/ Compact
    \/ Reset(NoneInt)

SpecAnySize == InitAnySize /\ [][NextAnySize]_vars

\* ------------------------------------------------------ backend/api.py
\* the requests the service is sent: capacities and sizes as the request
\* models admit them (gt=0), up to MaxApiCap and MaxApiSize
MaxApiCap == 3
MaxApiSize == 2
ApiCapacities == {MaxApiCap - 1, MaxApiCap}
ApiSizes == 1..MaxApiSize
ApiNames == {"A", "B"}

\* lines 226-235: what /status answers while memory_manager is None
DefaultStatus ==
    [total_memory |-> 0, used_memory |-> 0, free_memory |-> 0, blocks |-> <<>>,
     active_processes |-> 0, fragmentation |-> 0]

InitService ==
    /\ total_memory = 0
    /\ blocks = <<>>
    /\ heap = <<>>
    /\ process_map = EmptyDict
    /\ last = Call("none", None, 0, FALSE, NoneInt,
                   Outcome(blocks, heap, process_map, FALSE, "none", 0, NoneInt, 0))
    /\ memory_manager = None
    /\ handler = [r \in Requests |-> IdleHandler]
    /\ response = NoResponse

\* mutant: a coroutine may run while another one is inside its body
EventLoopFree_Always(r) == TRUE

\* the handlers are `async def` without any await: the event loop runs the
\* body of one to its return before it runs another, so request r runs
\* only while no other coroutine is inside its body
EventLoopFree(r) == \A q \in Requests \ {r} : handler[q].pc = "idle"

Start(r) == handler[r].pc = "idle" /\ EventLoopFree(r)

\* raise HTTPException(status_code=400, ...)
Reject(r, op) ==
    /\ response' = [NoResponse EXCEPT !.request = r, !.op = op, !.status_code = 400,
                                      !.message = "Memory not initialized"]
    /\ UNCHANGED <<engine, last, memory_manager, handler>>

\* the manager has returned o to the handler of request r, which has
\* get_status and return before it
Called(r, op, total, o) ==
    /\ handler' = [handler EXCEPT ![r] =
          [pc |-> "called", op |-> op, success |-> o.success, message |-> o.message,
           start_address |-> o.start_address, moved |-> o.moved_count,
           after |-> SomeStatus(GetStatus(total, o.blocks, o.heap, o.process_map))]]
    /\ response' = NoResponse

\* lines 90-117, up to the call of the constructor
ApiInitialize(r, c) ==
    LET o == Outcome(InitBlocks, InitHeap(c), EmptyDict, TRUE, "initialized", 0, NoneInt, 0)
    IN /\ Start(r)
       /\ memory_manager' = Engine
       /\ total_memory' = c
       /\ Leave(o)
       /\ last' = Call("init", None, 0, FALSE, SomeInt(c), o)
       /\ Called(r, "initialize", c, o)

\* lines 120-154, up to the call of allocate
ApiAllocate(r, process_name, size, use_buddy) ==
    /\ Start(r)
    /\ IF memory_manager = None THEN Reject(r, "allocate")
       ELSE LET o == AllocateCall(blocks, heap, process_map, process_name, size, use_buddy)
            IN /\ Leave(o)
               /\ last' = Call("allocate", process_name, size, use_buddy, NoneInt, o)
               /\ Called(r, "allocate", total_memory, o)
               /\ UNCHANGED <<total_memory, memory_manager>>

\* lines 157-185, up to the call of deallocate
ApiDeallocate(r, process_name) ==
    /\ Start(r)
    /\ IF memory_manager = None THEN Reject(r, "deallocate")
       ELSE LET o == DeallocateCall(blocks, heap, process_map, process_name)
            IN /\ Leave(o)
               /\ last' = Call("deallocate", process_name, 0, FALSE, NoneInt, o)
               /\ Called(r, "deallocate", total_memory, o)
               /\ UNCHANGED <<total_memory, memory_manager>>

\* lines 188-214, up to the call of compact
ApiCompact(r) ==
    /\ Start(r)
    /\ IF memory_manager = None THEN Reject(r, "compact")
       ELSE LET o == CompactCall(total_memory, blocks, heap, process_map)
            IN /\ Leave(o)
               /\ last' = Call("compact", None, 0, FALSE, NoneInt, o)
               /\ Called(r, "compact", total_memory, o)
               /\ UNCHANGED <<total_memory, memory_manager>>

\* lines 245-272, up to the call of reset
ApiReset(r, new_total_memory) ==
    /\ Start(r)
    /\ IF memory_manager = None THEN Reject(r, "reset")
       ELSE LET total == ResetTotal(total_memory, new_total_memory)
                o == Outcome(InitBlocks, InitHeap(total), EmptyDict, TRUE, "reset",
                             0, NoneInt, 0)
            IN /\ total_memory' = total
               /\ Leave(o)
               /\ last' = Call("reset", None, 0, FALSE, new_total_memory, o)
               /\ Called(r, "reset", total, o)
               /\ UNCHANGED memory_manager

\* lines 217-242: the whole handler; while memory_manager is None it
\* answers 200 with the default dictionary
ApiStatus(r) ==
    /\ Start(r)
    /\ response' =
          IF memory_manager = None
          THEN [NoResponse EXCEPT !.request = r, !.op = "status", !.status_code = 200,
                                  !.message = "Memory not initialized",
                                  !.status = SomeStatus(DefaultStatus)]
          ELSE [NoResponse EXCEPT !.request = r, !.op = "status", !.status_code = 200,
                                  !.initialized = TRUE,
                                  !.status = SomeStatus(GetStatus(total_memory, blocks,
                                                                  heap, process_map))]
    /\ UNCHANGED <<engine, last, memory_manager, handler>>

\* the rest of a handler that has called the manager:
\* status = memory_manager.get_status() and the return of the response
ApiReturn(r) ==
    /\ handler[r].pc = "called"
    /\ EventLoopFree(r)
    /\ response' = [request |-> r, op |-> handler[r].op, status_code |-> 200,
                    success |-> handler[r].success, message |-> handler[r].message,
                    start_address |-> handler[r].start_address,
                    moved_processes |-> handler[r].moved, initialized |-> TRUE,
                    status |-> SomeStatus(GetStatus(total_memory, blocks, heap,
                                                    process_map))]
    /\ handler' = [handler EXCEPT ![r] = IdleHandler]
    /\ UNCHANGED <<engine, last, memory_manager>>

NextService ==
    \/ \E r \in Requests, c \in ApiCapacities : ApiInitialize(r, c)
    \/ \E r \in Requests, p \in ApiNames, s \in ApiSizes, u \in BOOLEAN :
          ApiAllocate(r, p, s, u)
    \/ \E r \in Requests, p \in ApiNames : ApiDeallocate(r, p)
    \/ \E r \in Requests : ApiCompact(r)
    \/ \E r \in Requests, c \in {NoneInt} \cup {SomeInt(c) : c \in ApiCapacities} :
          ApiReset(r, c)
    \/ \E r \in Requests : ApiStatus(r)
    \/ \E r \in Requests : ApiReturn(r)

SpecService == InitService /\ [][NextService]_vars

\* ============================================================== properties
\* the block at position i of the current list, and of the list after a step
Blk(i) == heap[blocks[i]]
BlkNext(i) == heap'[blocks'[i]]
FreeIdx == {i \in 1..Len(blocks) : Blk(i).is_free}
UsedIdx == {i \in 1..Len(blocks) : ~Blk(i).is_free}

\* C1: in every reachable state the block list partitions [0, total_memory):
\* the first block starts at 0, every other block starts where the previous
\* one ends, starts ascend, and the last block ends at total_memory.
C1_Partition ==
    /\ Len(blocks) >= 1
    /\ Blk(1).start = 0
    /\ \A i \in 2..Len(blocks) :
          /\ Blk(i).start = BlockEnd(Blk(i - 1))
          /\ Blk(i - 1).start < Blk(i).start
    /\ BlockEnd(Blk(Len(blocks))) = total_memory

\* a deallocate has just merged free blocks and left a hole between
\* allocated blocks
C1_Witness ==
    /\ last.op = "deallocate" /\ last.success
    /\ Len(blocks) >= 4
    /\ \E i \in 2..(Len(blocks) - 1) :
          Blk(i).is_free /\ ~Blk(i - 1).is_free /\ ~Blk(i + 1).is_free

\* C2: the blocks the registry maps two distinct names to are disjoint
\* address ranges inside [0, total_memory).
C2_NoSharedAddress ==
    \A p \in DOMAIN process_map :
        LET b == heap[process_map[p]] IN
        /\ 0 <= b.start /\ BlockEnd(b) <= total_memory
        /\ \A q \in DOMAIN process_map \ {p} :
              LET c == heap[process_map[q]] IN
              BlockEnd(b) <= c.start \/ BlockEnd(c) <= b.start

\* three processes are registered right after a compaction moved them
C2_Witness ==
    /\ last.op = "compact" /\ last.success
    /\ Cardinality(DOMAIN process_map) = 3

\* C3: no two consecutive blocks of the list are both free.
C3_Coalesced ==
    \A i \in 2..Len(blocks) : ~(Blk(i - 1).is_free /\ Blk(i).is_free)

\* a deallocate freed a block and left a single free block next to an
\* allocated one, with more than one block in the list
C3_Witness ==
    /\ last.op = "deallocate" /\ last.success
    /\ Len(blocks) = 2
    /\ Blk(1).is_free /\ Blk(1).size >= 2

\* C4: used_memory + free_memory = total_memory.
C4_Accounting ==
    GetUsedMemory(blocks, heap) + GetFreeMemory(blocks, heap) = total_memory

\* memory is partly used and the free part is split in two holes
C4_Witness ==
    /\ GetUsedMemory(blocks, heap) >= 2
    /\ Cardinality(FreeIdx) = 2

\* C5: the registry agrees with the list: its keys are the owners of the
\* non-free blocks, each entry refers to a block of the list that is not
\* free and owned by the key, owners are unique, free blocks have no owner.
C5_RegistryConsistent ==
    /\ DOMAIN process_map = {Blk(i).process_name : i \in UsedIdx}
    /\ \A p \in DOMAIN process_map :
          /\ \E i \in 1..Len(blocks) : blocks[i] = process_map[p]
          /\ ~heap[process_map[p]].is_free
          /\ heap[process_map[p]].process_name = p
    /\ \A i, j \in UsedIdx : Blk(i).process_name = Blk(j).process_name => i = j
    /\ \A i \in FreeIdx : Blk(i).process_name = None

\* two processes survive a compaction that followed a deallocation: the
\* registry has been through a split, a merge and a relocation
C5_Witness ==
    /\ last.op = "compact" /\ last.success /\ last.moved_count = 2
    /\ Len(blocks) = 3

\* a step that is a call of allocate
AllocateStep == last'.op = "allocate"
AllocateOk == last'.op = "allocate" /\ last'.success

\* C6: a successful allocate takes the free block of the smallest size among
\* the free blocks of size >= actual_size, the one of lowest start among
\* several of that size; its start is the address returned.
C6_BestFit ==
    [][AllocateOk =>
        \E i \in FreeIdx :
            /\ Blk(i).size >= last'.actual_size
            /\ \A j \in FreeIdx :
                  Blk(j).size >= last'.actual_size =>
                      \/ Blk(i).size < Blk(j).size
                      \/ Blk(i).size = Blk(j).size /\ Blk(i).start <= Blk(j).start
            /\ last'.start_address = SomeInt(Blk(i).start)
            /\ heap'[process_map'[last'.process_name]].start = Blk(i).start]_vars

\* an allocate filled a hole exactly although a free block of the same size
\* lies at a higher address, and passed over nothing smaller
C6_Witness ==
    /\ last.op = "allocate" /\ last.success
    /\ \E i \in UsedIdx :
          /\ Blk(i).process_name = last.process_name
          /\ i = Len(blocks) \/ ~Blk(i + 1).is_free
          /\ \E j \in FreeIdx : j > i /\ Blk(j).size = Blk(i).size

\* C7: a successful allocate of size s into the chosen block [a, a+n) leaves
\* it allocated to the process when n = s (same number of blocks) and
\* replaces it by the allocated [a, a+s) followed at once by the free
\* [a+s, a+n) when n > s (one block more); the registry maps the name to the
\* allocated block and a is returned.
C7_SplitOrConsume ==
    [][AllocateOk =>
        \E i \in FreeIdx :
            LET b == Blk(i)
                s == last'.actual_size
                p == last'.process_name
            IN /\ last'.start_address = SomeInt(b.start)
               /\ b.size >= s
               /\ BlkNext(i) = MemoryBlock(b.start, s, FALSE, p)
               /\ b.size = s => Len(blocks') = Len(blocks)
               /\ b.size > s =>
                     /\ Len(blocks') = Len(blocks) + 1
                     /\ BlkNext(i + 1) = MemoryBlock(b.start + s, b.size - s, TRUE, None)
               /\ p \in DOMAIN process_map'
               /\ process_map'[p] = blocks'[i]]_vars

\* an allocate split the hole in front of two allocated blocks
C7_Witness ==
    /\ last.op = "allocate" /\ last.success /\ last.start_address = SomeInt(0)
    /\ Len(blocks) = 4
    /\ Blk(1).process_name = last.process_name
    /\ Blk(2).is_free /\ ~Blk(3).is_free /\ ~Blk(4).is_free

\* the size the rounding rule asks for: with rounding the smallest power of
\* two >= the requested size, 1 for a size <= 0; without, the size itself
RECURSIVE IsPowerOfTwo(_)
IsPowerOfTwo(n) == n = 1 \/ (n > 1 /\ n % 2 = 0 /\ IsPowerOfTwo(n \div 2))
SmallestPowerOfTwoAtLeast(size) ==
    IF size <= 0 THEN 1
    ELSE CHOOSE n \in 1..(2 * size) :
            /\ IsPowerOfTwo(n) /\ n >= size
            /\ \A m \in 1..(n - 1) : ~(IsPowerOfTwo(m) /\ m >= size)
ReservedSize(size, use_buddy) ==
    IF use_buddy THEN SmallestPowerOfTwoAtLeast(size) ELSE size

\* a successful allocate created a block of the size the rule asks for and
\* raised used_memory by it
ReservesRuleSize ==
    AllocateOk =>
        LET x == ReservedSize(last'.size, last'.use_buddy) IN
        /\ heap'[process_map'[last'.process_name]].size = x
        /\ GetUsedMemory(blocks', heap') = GetUsedMemory(blocks, heap) + x

\* C8: the size a successful allocate reserves (the size of the new block,
\* the increase of used_memory) is with rounding the smallest power of two
\* >= the requested size (1 for a size <= 0, the size itself when it is a
\* power of two) and without rounding the requested size; for a size
\* 2^e + d beyond the integers of the model the rule is stated of the
\* rounding itself: 2^e for d = 0 and 2^(e+1) otherwise.
C8_ReservedSize ==
    [][/\ ReservesRuleSize
       /\ last'.op = "_round_to_power_of_2" =>
             /\ last'.big_result.d = 0
             /\ last'.big_result.e =
                   IF last'.big_size.d = 0 THEN last'.big_size.e
                   ELSE last'.big_size.e + 1]_vars

\* C8, for the sizes a manager of the model can hold: every successful
\* allocate reserves the size the rule asks for.
C8_ReservedSizeInRange == [][ReservesRuleSize]_vars

\* a request of 100 with rounding reserved 128
C8_WitnessInRange ==
    /\ last.op = "allocate" /\ last.success /\ last.size = 100 /\ last.use_buddy
    /\ GetUsedMemory(blocks, heap) = 128

\* C9: allocate with a registered name fails as a duplicate, returns no
\* address and changes neither the list, the registry nor the metrics,
\* whatever the size and the rounding flag.
C9_DuplicateRejected ==
    [][(AllocateStep /\ last'.process_name \in DOMAIN process_map) =>
        /\ ~last'.success
        /\ last'.message = "already allocated"
        /\ last'.start_address = NoneInt
        /\ UNCHANGED engine
        /\ GetUsedMemory(blocks', heap') = GetUsedMemory(blocks, heap)
        /\ GetFreeMemory(blocks', heap') = GetFreeMemory(blocks, heap)]_vars

\* a duplicate was rejected although no free block fits the request
C9_Witness ==
    /\ last.op = "allocate" /\ last.message = "already allocated"
    /\ last.process_name \in DOMAIN process_map
    /\ FreeIdx # {}
    /\ \A i \in FreeIdx : Blk(i).size < ActualSize(last.size, last.use_buddy)

\* C10: allocate with an unregistered name fails with "no suitable block"
\* exactly when no single free block has size >= actual_size; the failed
\* call returns no address and leaves list and registry unchanged.
C10_NoSuitableBlock ==
    [][(AllocateStep /\ last'.process_name \notin DOMAIN process_map) =>
        LET s == ActualSize(last'.size, last'.use_buddy)
            fits == \E i \in FreeIdx : Blk(i).size >= s
        IN /\ (last'.message = "No suitable free block found") <=> ~fits
           /\ last'.success <=> fits
           /\ ~fits => last'.start_address = NoneInt /\ UNCHANGED engine]_vars

\* a request failed although the free memory, split in two holes, would
\* suffice
C10_Witness ==
    /\ last.op = "allocate" /\ last.message = "No suitable free block found"
    /\ Cardinality(FreeIdx) = 2
    /\ GetFreeMemory(blocks, heap) >= ActualSize(last.size, last.use_buddy)

\* a step that is a call of deallocate
DeallocateStep == last'.op = "deallocate"
SameMetrics ==
    /\ GetUsedMemory(blocks', heap') = GetUsedMemory(blocks, heap)
    /\ GetFreeMemory(blocks', heap') = GetFreeMemory(blocks, heap)

\* C11: deallocate of a name that is not registered fails as "not found"
\* and changes neither list, registry nor metrics; after a successful
\* deallocate the name is not registered, so a second one is such a call.
C11_UnknownRejected ==
    [][/\ (DeallocateStep /\ last'.process_name \notin DOMAIN process_map) =>
             /\ ~last'.success
             /\ last'.message = "not found"
             /\ UNCHANGED engine
             /\ SameMetrics
       /\ (DeallocateStep /\ last'.success) =>
             last'.process_name \notin DOMAIN process_map']_vars

\* a deallocate of an unregistered name was rejected while other processes
\* hold memory around a hole
C11_Witness ==
    /\ last.op = "deallocate" /\ ~last.success /\ last.message = "not found"
    /\ last.process_name \notin DOMAIN process_map
    /\ Cardinality(DOMAIN process_map) = 2
    /\ Blk(1).is_free

\* C12: deallocate of a registered name succeeds; then the name is not
\* registered, no block carries it, the addresses of its block lie in a free
\* block, used_memory fell and free_memory rose by the size of its block.
C12_Deallocated ==
    [][(DeallocateStep /\ last'.process_name \in DOMAIN process_map) =>
        LET p == last'.process_name
            b == heap[process_map[p]]
        IN /\ last'.success
           /\ p \notin DOMAIN process_map'
           /\ \A i \in 1..Len(blocks') : BlkNext(i).process_name # p
           /\ \E i \in 1..Len(blocks') :
                 /\ BlkNext(i).is_free
                 /\ BlkNext(i).start <= b.start
                 /\ BlockEnd(b) <= BlockEnd(BlkNext(i))
           /\ GetUsedMemory(blocks', heap') = GetUsedMemory(blocks, heap) - b.size
           /\ GetFreeMemory(blocks', heap') = GetFreeMemory(blocks, heap) + b.size]_vars

\* a deallocate left a hole between two allocated blocks
C12_Witness ==
    /\ last.op = "deallocate" /\ last.success
    /\ Len(blocks) >= 3
    /\ ~Blk(1).is_free /\ Blk(2).is_free /\ ~Blk(3).is_free

\* what can be observed of a list and of a registry: the fields of the
\* blocks in list order, and the fields of the block each name refers to
ListView(bl, hp) == [i \in 1..Len(bl) |-> hp[bl[i]]]
RegistryView(hp, pm) == [p \in DOMAIN pm |-> hp[pm[p]]]

\* C13: from any reachable state a successful allocate(p, size, rounding)
\* followed at once by deallocate(p) gives back the block list (starts,
\* sizes, free flags, owners) and the registry of before.
C13_RoundTrip ==
    \A p \in Names, size \in Sizes, use_buddy \in BOOLEAN :
        LET a == AllocateCall(blocks, heap, process_map, p, size, use_buddy)
            d == DeallocateCall(a.blocks, a.heap, a.process_map, p)
        IN a.success =>
              /\ d.success
              /\ ListView(d.blocks, d.heap) = ListView(blocks, heap)
              /\ RegistryView(d.heap, d.process_map) = RegistryView(heap, process_map)

\* a state where an allocate would split the hole between two allocated
\* blocks, so that the deallocate has to merge the two parts again
C13_Witness ==
    /\ Len(blocks) = 3
    /\ ~Blk(1).is_free /\ Blk(2).is_free /\ ~Blk(3).is_free /\ Blk(2).size = 2
    /\ \E p \in Names :
          AllocateCall(blocks, heap, process_map, p, 1, FALSE).success

\* every order in which the registered names can be deallocated
Orders(names) ==
    {o \in [1..Cardinality(names) -> names] :
        \A i, j \in 1..Cardinality(names) : o[i] = o[j] => i = j}

\* the calls deallocate(order[k]), deallocate(order[k+1]), ... in turn
RECURSIVE DeallocateAll(_, _, _, _, _)
DeallocateAll(bl, hp, pm, order, k) ==
    IF k > Len(order) THEN [blocks |-> bl, heap |-> hp, process_map |-> pm]
    ELSE LET d == DeallocateCall(bl, hp, pm, order[k])
         IN DeallocateAll(d.blocks, d.heap, d.process_map, order, k + 1)

\* C14: from any reachable state, deallocating every registered process in
\* any order ends with one free block [0, total_memory), an empty registry,
\* used_memory 0 and free_memory total_memory.
C14_DeallocateAll ==
    \A order \in Orders(DOMAIN process_map) :
        LET e == DeallocateAll(blocks, heap, process_map, order, 1) IN
        /\ ListView(e.blocks, e.heap) = <<MemoryBlock(0, total_memory, TRUE, None)>>
        /\ e.process_map = EmptyDict
        /\ GetUsedMemory(e.blocks, e.heap) = 0
        /\ GetFreeMemory(e.blocks, e.heap) = total_memory

\* two processes are registered, with a hole before, between or after them
\* on both sides of one of them
C14_Witness ==
    /\ Cardinality(DOMAIN process_map) = 2
    /\ Cardinality(FreeIdx) = 2

\* a step that is a call of compact
CompactStep == last'.op = "compact"
CompactOk == CompactStep /\ last'.success

\* C15: after a successful compact the allocated blocks lie back to back
\* from address 0 in the address order they had before, followed by exactly
\* one free block [used_memory, total_memory) when used_memory < total_memory
\* and by nothing when used_memory = total_memory; at most one block is free.
C15_CompactLayout ==
    [][CompactOk =>
        LET before == SelectSeq(blocks, LAMBDA i : ~heap[i].is_free)
            n == Len(before)
            used == GetUsedMemory(blocks', heap')
        IN /\ Len(blocks') >= n
           /\ \A k \in 1..n :
                 /\ ~BlkNext(k).is_free
                 /\ BlkNext(k).process_name = heap[before[k]].process_name
                 /\ BlkNext(k).size = heap[before[k]].size
                 /\ BlkNext(k).start = IF k = 1 THEN 0 ELSE BlockEnd(BlkNext(k - 1))
           /\ n >= 1 /\ BlockEnd(BlkNext(n)) = used
           /\ IF used < total_memory
              THEN /\ Len(blocks') = n + 1
                   /\ BlkNext(n + 1) = MemoryBlock(used, total_memory - used, TRUE, None)
              ELSE /\ used = total_memory
                   /\ Len(blocks') = n
           /\ Cardinality({i \in 1..Len(blocks') : BlkNext(i).is_free}) <= 1]_vars

\* a compact has left two allocated blocks followed by the free block
C15_Witness ==
    /\ last.op = "compact" /\ last.success
    /\ Len(blocks) = 3
    /\ ~Blk(1).is_free /\ ~Blk(2).is_free /\ Blk(3).is_free
    /\ Blk(1).size = 1 /\ Blk(3).size >= 2

\* C16: compact keeps the registered names, the size of the block of each
\* name, used_memory and free_memory; of a block only the start changes, and
\* afterwards every name refers to its block in the new list.
C16_CompactPreserves ==
    [][CompactStep =>
        /\ DOMAIN process_map' = DOMAIN process_map
        /\ SameMetrics
        /\ \A p \in DOMAIN process_map :
              LET old == heap[process_map[p]]
                  new == heap'[process_map'[p]]
              IN /\ new.size = old.size
                 /\ new = [old EXCEPT !.start = new.start]
                 /\ new.process_name = p /\ ~new.is_free
                 /\ process_map'[p] \in Range(blocks')]_vars

\* a compact has left three allocated blocks and free space behind them
C16_Witness ==
    /\ last.op = "compact" /\ last.success
    /\ Cardinality(DOMAIN process_map) = 3
    /\ Len(blocks) = 4 /\ Blk(4).is_free

\* C17: compact fails ("No allocated blocks to compact", count 0) exactly
\* when no block is allocated, and then changes neither list nor registry;
\* with at least one allocated block it succeeds.
C17_NothingToCompact ==
    [][CompactStep =>
        /\ last'.success <=> UsedIdx # {}
        /\ ~last'.success =>
              /\ last'.message = "No allocated blocks to compact"
              /\ last'.moved_count = 0
              /\ UNCHANGED engine]_vars

\* a compact of a manager without allocations has failed
C17_Witness ==
    /\ last.op = "compact" /\ ~last.success
    /\ last.message = "No allocated blocks to compact"
    /\ process_map = EmptyDict /\ Len(blocks) = 1 /\ Blk(1).is_free

\* C18: a successful compact returns the number of blocks allocated at the
\* time of the call, which is the number of registered processes, whether or
\* not their addresses change.
C18_CompactCount ==
    [][CompactOk =>
        /\ last'.moved_count = Cardinality(UsedIdx)
        /\ last'.moved_count = Cardinality(DOMAIN process_map)]_vars

\* a compact of a full memory, where no block can move, has returned 2
C18_Witness ==
    /\ last.op = "compact" /\ last.success /\ last.moved_count = 2
    /\ GetUsedMemory(blocks, heap) = total_memory
    /\ Len(blocks) = 2

\* comparison of two fractions with positive denominators
FracLeq(a, b) == a.num * b.den <= b.num * a.den
FracEq(a, b) == a.num * b.den = b.num * a.den

\* C19: the fragmentation ratio is 0 with at most one free block, otherwise
\* (number of free blocks - 1) / (number of blocks); it is positive exactly
\* when at least two blocks are free.
C19_FragmentationRatio ==
    LET ratio == GetFragmentationRatio(blocks, heap)
        nfree == Cardinality(FreeIdx)
    IN /\ ratio.den > 0
       /\ nfree <= 1 => ratio.num = 0
       /\ nfree >= 2 => FracEq(ratio, [num |-> nfree - 1, den |-> Len(blocks)])
       /\ ratio.num > 0 <=> nfree >= 2

\* two of four blocks are free: the ratio is 1/4
C19_Witness ==
    /\ Len(blocks) = 4 /\ Cardinality(FreeIdx) = 2
    /\ GetFragmentationRatio(blocks, heap) = [num |-> 1, den |-> 4]

\* C20: the fragmentation ratio after a compact call is never greater than
\* before it, and it is 0 after a successful one.
C20_CompactDefragments ==
    [][CompactStep =>
        /\ FracLeq(GetFragmentationRatio(blocks', heap'),
                   GetFragmentationRatio(blocks, heap))
        /\ last'.success => GetFragmentationRatio(blocks', heap').num = 0]_vars

\* a fragmented state (ratio > 0) whose compaction succeeds with ratio 0
C20_Witness ==
    /\ GetFragmentationRatio(blocks, heap).num > 0
    /\ LET o == CompactCall(total_memory, blocks, heap, process_map)
       IN o.success /\ GetFragmentationRatio(o.blocks, o.heap).num = 0

\* the layout of a manager of capacity c that holds nothing, before and
\* after a step
Fresh(c) ==
    /\ ListView(blocks, heap) = <<MemoryBlock(0, c, TRUE, None)>>
    /\ DOMAIN heap = Range(blocks)
    /\ process_map = EmptyDict
    /\ total_memory = c
    /\ GetUsedMemory(blocks, heap) = 0
    /\ GetFreeMemory(blocks, heap) = c
FreshNext(c) ==
    /\ ListView(blocks', heap') = <<MemoryBlock(0, c, TRUE, None)>>
    /\ DOMAIN heap' = Range(blocks')
    /\ process_map' = EmptyDict
    /\ total_memory' = c
    /\ GetUsedMemory(blocks', heap') = 0
    /\ GetFreeMemory(blocks', heap') = c

\* C21: construction with capacity c, and reset from any reachable state,
\* leave one free block [0, c), an empty registry, used_memory 0 and
\* free_memory c; for reset c is the capacity given, or the capacity of
\* before when none is given; no block or process of before survives.
C21_FreshAfterInitAndReset ==
    /\ [](last.op = "init" => Fresh(last.new_total_memory[1]))
    /\ [][last'.op = "reset" =>
            FreshNext(IF last'.new_total_memory = NoneInt
                      THEN total_memory ELSE last'.new_total_memory[1])]_vars

\* a reset to the smaller capacity has left the fresh layout
C21_Witness ==
    /\ last.op = "reset" /\ last.new_total_memory = SomeInt(MaxCap - 1)
    /\ Fresh(MaxCap - 1)

\* C23: the start and the size of every block are non-negative, whatever
\* integer size allocate was called with.
C23_NonNegativeBlocks ==
    \A i \in 1..Len(blocks) : Blk(i).start >= 0 /\ Blk(i).size >= 0

\* the position in the list of the block a registered name refers to
IndexOf(p) == CHOOSE i \in 1..Len(blocks) : blocks[i] = process_map[p]
FreeAt(i) == i \in 1..Len(blocks) /\ Blk(i).is_free

\* C28: on deallocate the freed block is merged with its free left and
\* right neighbours into one free block that starts where the leftmost block
\* of the run starts and has the sum of their sizes; the number of blocks
\* falls by the number of free neighbours (0, 1 or 2).
C28_Coalescing ==
    [][(DeallocateStep /\ last'.success) =>
        LET i == IndexOf(last'.process_name)
            lo == IF FreeAt(i - 1) THEN i - 1 ELSE i
            hi == IF FreeAt(i + 1) THEN i + 1 ELSE i
            sum == (IF FreeAt(i - 1) THEN Blk(i - 1).size ELSE 0) + Blk(i).size
                   + (IF FreeAt(i + 1) THEN Blk(i + 1).size ELSE 0)
        IN /\ Len(blocks') = Len(blocks) - (hi - lo)
           /\ BlkNext(lo) = MemoryBlock(Blk(lo).start, sum, TRUE, None)
           /\ (hi > lo) => Len(blocks') < Len(blocks)]_vars

\* a registered block lies between two free blocks, and freeing it takes
\* two blocks off the list
C28_Witness ==
    \E p \in DOMAIN process_map :
        /\ FreeAt(IndexOf(p) - 1) /\ FreeAt(IndexOf(p) + 1)
        /\ Len(DeallocateCall(blocks, heap, process_map, p).blocks) = Len(blocks) - 2

\* the fields of the allocated blocks of a list, in list order, without
\* the blocks of the name p
AllocatedView(bl, hp, p) ==
    LET used == SelectSeq(bl, LAMBDA i : ~hp[i].is_free /\ hp[i].process_name # p)
    IN [k \in 1..Len(used) |-> hp[used[k]]]

\* C29: a successful deallocate(p) leaves start, size and owner of every
\* block of another process unchanged and in the same order, and leaves the
\* registry entries of the other names unchanged.
C29_DeallocateFrame ==
    [][(DeallocateStep /\ last'.success) =>
        LET p == last'.process_name IN
        /\ AllocatedView(blocks', heap', p) = AllocatedView(blocks, heap, p)
        /\ DOMAIN process_map' = DOMAIN process_map \ {p}
        /\ \A q \in DOMAIN process_map \ {p} :
              heap'[process_map'[q]] = heap[process_map[q]]]_vars

\* a deallocate has succeeded and left two other processes in place, the
\* first of them behind the hole
C29_Witness ==
    /\ last.op = "deallocate" /\ last.success
    /\ Cardinality(DOMAIN process_map) = 2
    /\ Blk(1).is_free /\ Len(blocks) >= 3

\* C30: a successful allocate changes only the chosen free block: the
\* blocks before it and after it keep their fields and their order, none
\* are merged, and no registry entry but the one of the new name changes.
C30_AllocateFrame ==
    [][AllocateOk =>
        LET p == last'.process_name
            i == CHOOSE k \in 1..Len(blocks) :
                     Blk(k).start = last'.start_address[1] /\ Blk(k).is_free
            before == ListView(blocks, heap)
            after == ListView(blocks', heap')
            rest == Len(blocks) - i
        IN /\ Len(after) \in {Len(before), Len(before) + 1}
           /\ SubSeq(after, 1, i - 1) = SubSeq(before, 1, i - 1)
           /\ SubSeq(after, Len(after) - rest + 1, Len(after))
                 = SubSeq(before, i + 1, Len(before))
           /\ DOMAIN process_map' = DOMAIN process_map \cup {p}
           /\ \A q \in DOMAIN process_map :
                 heap'[process_map'[q]] = heap[process_map[q]]]_vars

\* an allocate has split the hole between two allocated blocks
C30_Witness ==
    /\ last.op = "allocate" /\ last.success
    /\ Len(blocks) = 4
    /\ ~Blk(1).is_free /\ Blk(1).process_name # last.process_name
    /\ ~Blk(2).is_free /\ Blk(2).process_name = last.process_name
    /\ Blk(3).is_free /\ ~Blk(4).is_free

\* the block fields of the current list and of the list after a step
Layout == ListView(blocks, heap)
LayoutNext == ListView(blocks', heap')
AllocateOf(p, size) ==
    AllocateStep /\ last'.process_name = p /\ last'.size = size

\* C24: from capacity 1024: allocate A=256 without rounding returns 0 with
\* used 256; allocate B=256 returns 256 with used 512; deallocate A leaves
\* used 256 and the free blocks [0,256) and [512,1024) around B; allocate
\* C=800 without rounding fails for want of a block; compact then succeeds
\* with B at 0, used 256 and the one free block [256,1024).
C24_Scenario ==
    [][/\ (Layout = <<MemoryBlock(0, 1024, TRUE, None)>>
            /\ AllocateOf("A", 256) /\ ~last'.use_buddy) =>
              /\ last'.success /\ last'.start_address = SomeInt(0)
              /\ GetUsedMemory(blocks', heap') = 256
              /\ LayoutNext = <<MemoryBlock(0, 256, FALSE, "A"),
                                MemoryBlock(256, 768, TRUE, None)>>
       /\ (Layout = <<MemoryBlock(0, 256, FALSE, "A"), MemoryBlock(256, 768, TRUE, None)>>
            /\ AllocateOf("B", 256)) =>
              /\ last'.success /\ last'.start_address = SomeInt(256)
              /\ GetUsedMemory(blocks', heap') = 512
              /\ LayoutNext = <<MemoryBlock(0, 256, FALSE, "A"),
                                MemoryBlock(256, 256, FALSE, "B"),
                                MemoryBlock(512, 512, TRUE, None)>>
       /\ (Layout = <<MemoryBlock(0, 256, FALSE, "A"), MemoryBlock(256, 256, FALSE, "B"),
                      MemoryBlock(512, 512, TRUE, None)>>
            /\ DeallocateStep /\ last'.process_name = "A") =>
              /\ last'.success
              /\ GetUsedMemory(blocks', heap') = 256
              /\ LayoutNext = <<MemoryBlock(0, 256, TRUE, None),
                                MemoryBlock(256, 256, FALSE, "B"),
                                MemoryBlock(512, 512, TRUE, None)>>
       /\ (Layout = <<MemoryBlock(0, 256, TRUE, None), MemoryBlock(256, 256, FALSE, "B"),
                      MemoryBlock(512, 512, TRUE, None)>>
            /\ AllocateOf("C", 800) /\ ~last'.use_buddy) =>
              /\ ~last'.success /\ last'.message = "No suitable free block found"
              /\ LayoutNext = Layout
       /\ (Layout = <<MemoryBlock(0, 256, TRUE, None), MemoryBlock(256, 256, FALSE, "B"),
                      MemoryBlock(512, 512, TRUE, None)>>
            /\ CompactStep) =>
              /\ last'.success
              /\ GetUsedMemory(blocks', heap') = 256
              /\ LayoutNext = <<MemoryBlock(0, 256, FALSE, "B"),
                                MemoryBlock(256, 768, TRUE, None)>>
              /\ heap'[process_map'["B"]].start = 0]_vars

\* the end of the scenario: the compact has moved B to 0
C24_Witness ==
    /\ last.op = "compact" /\ last.success /\ last.moved_count = 1
    /\ total_memory = 1024
    /\ Layout = <<MemoryBlock(0, 256, FALSE, "B"), MemoryBlock(256, 768, TRUE, None)>>

\* C22: construction or reset with a capacity of 0 or less is refused: no
\* state has total_memory <= 0, and a reset with such a capacity fails and
\* leaves list, registry and total_memory unchanged.
C22_InvalidCapacityRejected ==
    /\ [](total_memory > 0)
    /\ [][(last'.op = "reset" /\ last'.new_total_memory # NoneInt
                              /\ last'.new_total_memory[1] <= 0) =>
            ~last'.success /\ UNCHANGED engine]_vars

\* a step that sends the response to a request
Responds == response' # response /\ response'.op # "none"

\* C25: while no manager is initialized every request but initialize is
\* answered with a precondition failure, without any status and without a
\* manager being created; once one is initialized the requests are answered
\* by the manager, with its status.
C25_UninitializedRejected ==
    [][/\ (memory_manager = None /\ Responds) =>
             /\ response'.status_code = 400
             /\ response'.status = NoStatus
             /\ memory_manager' = None
             /\ UNCHANGED engine
       /\ (memory_manager # None /\ Responds) =>
             /\ response'.status_code = 200
             /\ response'.status =
                   SomeStatus(GetStatus(total_memory', blocks', heap', process_map'))]_vars

\* C26: requests are served one at a time: between the call of the manager
\* by a handler and its response no other handler changes the manager, the
\* status in the response is the one the manager had right after the
\* handler's own call, and the invariants of the manager hold throughout.
C26_Serialized ==
    /\ [](memory_manager # None =>
             C1_Partition /\ C3_Coalesced /\ C4_Accounting /\ C5_RegistryConsistent)
    /\ [][\A r \in Requests : handler[r].pc = "called" =>
             /\ UNCHANGED engine
             /\ handler'[r].pc = "idle" =>
                   /\ response'.request = r
                   /\ response'.op = handler[r].op
                   /\ response'.status = handler[r].after]_vars

\* request 2 was answered for an allocate that made the second process,
\* after another request had been served
C26_Witness ==
    /\ response.request = 2 /\ response.op = "allocate" /\ response.success
    /\ response.status # NoStatus
    /\ Cardinality(DOMAIN process_map) = 2
    /\ \A r \in Requests : handler[r].pc = "idle"

\* C27: a status query leaves list, registry and total_memory unchanged,
\* and the status it returns has the total, used and free memory, the
\* blocks (start, size, end = start + size, free flag, owner) and the number
\* of registered processes of the state it was called in.
C27_QueriesReadOnly ==
    [][(Responds /\ response'.initialized) =>
        /\ UNCHANGED engine
        /\ response'.status # NoStatus
        /\ LET st == response'.status[1] IN
           /\ st.total_memory = total_memory
           /\ st.used_memory = GetUsedMemory(blocks, heap)
           /\ st.free_memory = GetFreeMemory(blocks, heap)
           /\ st.active_processes = Cardinality(DOMAIN process_map)
           /\ Len(st.blocks) = Len(blocks)
           /\ \A i \in 1..Len(blocks) :
                 /\ st.blocks[i].start = Blk(i).start
                 /\ st.blocks[i].size = Blk(i).size
                 /\ st.blocks[i].end = Blk(i).start + Blk(i).size
                 /\ st.blocks[i].is_free = Blk(i).is_free
                 /\ st.blocks[i].process_name = Blk(i).process_name]_vars

\* a status request was answered while a process held memory between two
\* holes
C27_Witness ==
    /\ response.op = "status" /\ response.initialized
    /\ response.status # NoStatus
    /\ response.status[1].active_processes = 1
    /\ Len(response.status[1].blocks) = 3
    /\ response.status[1].blocks[1].is_free
    /\ response.status[1].blocks[3].is_free
    /\ response.status[1].used_memory = 1

\* C31: compact is idempotent: with at least one allocated block, compact
\* called twice in a row gives the list and the registry that one call
\* gives, and the second call succeeds with the same count.
C31_CompactIdempotent ==
    UsedIdx # {} =>
        LET once == CompactCall(total_memory, blocks, heap, process_map)
            twice == CompactCall(total_memory, once.blocks, once.heap, once.process_map)
        IN /\ once.success /\ twice.success
           /\ twice.moved_count = once.moved_count
           /\ ListView(twice.blocks, twice.heap) = ListView(once.blocks, once.heap)
           /\ RegistryView(twice.heap, twice.process_map)
                 = RegistryView(once.heap, once.process_map)

\* two processes with a hole in front of them, which a compact moves
C31_Witness ==
    /\ Len(blocks) >= 3 /\ Blk(1).is_free /\ ~Blk(2).is_free /\ ~Blk(3).is_free
    /\ LET once == CompactCall(total_memory, blocks, heap, process_map)
       IN once.success /\ once.moved_count = 2
          /\ ListView(once.blocks, once.heap) # Layout

\* C32: right after a successful compact, allocate with an unregistered
\* name and an actual size from 1 to free_memory succeeds and returns the
\* address used_memory, also when the same call failed before the compact.
C32_AllocateAfterCompact ==
    UsedIdx # {} =>
        LET c == CompactCall(total_memory, blocks, heap, process_map)
            used == GetUsedMemory(c.blocks, c.heap)
            free == GetFreeMemory(c.blocks, c.heap)
        IN \A p \in Names \ DOMAIN process_map, size \in Sizes, use_buddy \in BOOLEAN :
              (ActualSize(size, use_buddy) >= 1 /\ ActualSize(size, use_buddy) <= free) =>
                  LET a == AllocateCall(c.blocks, c.heap, c.process_map, p, size, use_buddy)
                  IN a.success /\ a.start_address = SomeInt(used)

\* an allocate of size 2 fails for want of a block although 2 units are
\* free, and succeeds after a compact
C32_Witness ==
    \E p \in Names \ DOMAIN process_map :
        /\ GetFreeMemory(blocks, heap) >= 2
        /\ ~AllocateCall(blocks, heap, process_map, p, 2, FALSE).success
        /\ LET c == CompactCall(total_memory, blocks, heap, process_map)
           IN c.success
              /\ AllocateCall(c.blocks, c.heap, c.process_map, p, 2, FALSE).success

\* C33: compact moves no process to a higher address: the start of every
\* registered process after compact is at most its start before, and is the
\* sum of the sizes of the allocated blocks that came before it.
C33_CompactMovesDown ==
    [][CompactOk =>
        \A p \in DOMAIN process_map :
            LET old == heap[process_map[p]].start
                new == heap'[process_map'[p]].start
            IN /\ new <= old
               /\ new = GetUsedMemory(SubSeq(blocks, 1, IndexOf(p) - 1), heap)]_vars

\* a process behind another process and a hole, which a compact moves to
\* a lower address that is not 0
C33_Witness ==
    \E p \in DOMAIN process_map :
        LET c == CompactCall(total_memory, blocks, heap, process_map)
            new == c.heap[c.process_map[p]].start
        IN c.success /\ new > 0 /\ new < heap[process_map[p]].start

\* C34: 2 * (number of free blocks - 1) is less than the number of blocks
\* in every state, so the fragmentation ratio lies in [0, 1/2).
C34_RatioBelowHalf ==
    LET ratio == GetFragmentationRatio(blocks, heap) IN
    /\ 2 * (Cardinality(FreeIdx) - 1) < Len(blocks)
    /\ ratio.num >= 0 /\ ratio.den > 0
    /\ 2 * ratio.num < ratio.den

\* one allocated block between two free ones, the most free blocks a list
\* of three can have: the ratio is 1/3
C34_Witness ==
    /\ Len(blocks) = 3 /\ Cardinality(FreeIdx) = 2
    /\ GetFragmentationRatio(blocks, heap) = [num |-> 1, den |-> 3]

\* C35: every free block has a size of at least 1 in every state: neither
\* an exact fit, a split, a merge nor a compact that leaves no space puts a
\* free block of size 0 into the list.
C35_NoEmptyFreeBlock ==
    \A i \in FreeIdx : Blk(i).size >= 1
====
